---------------------------- MODULE Spec2Model ----------------------------
(***************************************************************************)
(* A model of the arXiv -> Discord notification bot.                       *)
(*                                                                         *)
(* The run modelled by Spec is the one of bot.py: the module-level         *)
(* argument parsing, ArxivBot.on_ready, ArxivBot.check_arxiv and the       *)
(* helpers they call.  The refactored components (state_manager.py,        *)
(* settings.py, arxiv_fetcher.py, discord_formatter.py) have no driver in  *)
(* the sources; their methods are modelled as operators and are applied    *)
(* by the actions of SpecSM (StateManager) and of SpecCmp (the matcher,    *)
(* the formatters and the two argument parsers, called on their own).      *)
(*                                                                         *)
(* Time is counted in ticks; a tick stands for the "1 second" pad and a    *)
(* day is DayLen ticks.  A state file is a record [kind, t]: kind is       *)
(* "absent" (no file), "garbage" (text that datetime.fromisoformat         *)
(* rejects) or "iso" (an ISO-8601 timestamp whose wall-clock value is t).  *)
(* Strings that only matter by their length (title, summary, link,         *)
(* journal reference) are modelled by that length.                         *)
(***************************************************************************)
EXTENDS Integers, Sequences, FiniteSets, TLC

\* ------------------------------------------------------------------ bounds
\* ticks per calendar day (timedelta(days=1))
DayLen == 4
\* how many times the clock may tick after the initial instant
MaxTicks == 1
\* stand-in for max_results (50 in the source): the cap on fetched items
MaxResults == 2
\* the largest number of items upstream holds
MaxUpstream == 2

\* offset of the Eastern reference timezone from UTC, in ticks (UTC-5/-4)
EasternOff == -1
\* the --lastdate value used when an override is given
OverrideDate == 1
\* the timestamp held by a readable query watermark file at the start
StoredDate == 3

\* the initial instant: the start of a UTC day
StartTime == 2 * DayLen
MaxTime == StartTime + MaxTicks

\* --------------------------------------------------------- program constants
MAX_SUMMARY == 1400
MAX_MSG == 2000
\* len('...[continue]')
ContinueMarkLen == 13
\* literal characters of the standard message template
StdTemplateLen == 88
\* literal characters of the "was published" update template
UpdateTemplateLen == 108
\* len("**Journal Reference:** " + "\n")
JournalLineLen == 24
\* len(" et al.")
EtAlLen == 7
\* len of strftime('%Y-%m-%d')
DateStrLen == 10
\* len("<@" + 18-digit id + ">")
TagLen == 21
\* len("unknown")
UnknownLen == 7

\* ------------------------------------------------------------ configuration
\* config.TARGET_AUTHORS: the watch-list
TARGET_AUTHORS == << "Alice Smith", "Bob Jones" >>
\* config.AUTHOR_DISCORD_IDS: the watch-list names that have a Discord id
AUTHOR_DISCORD_IDS == { "Bob Jones" }

Names == { "Alice Smith", "alice smith", "Bob Jones", "bob jones",
           "Carol White", "Smith", "Bob Joneson" }

\* str.lower() on the names of the model
Lower(n) ==
    CASE n = "Alice Smith" -> "alice smith"
      [] n = "alice smith" -> "alice smith"
      [] n = "Bob Jones"   -> "bob jones"
      [] n = "bob jones"   -> "bob jones"
      [] n = "Carol White" -> "carol white"
      [] n = "Smith"       -> "smith"
      [] n = "Bob Joneson" -> "bob joneson"
      [] OTHER             -> n

\* len() of the names of the model
NameLen(n) ==
    CASE n \in { "Alice Smith", "alice smith", "Carol White", "Bob Joneson" } -> 11
      [] n \in { "Bob Jones", "bob jones" } -> 9
      [] n = "Smith" -> 5
      [] OTHER -> 0

\* `a in b` on lower-cased names: a is a substring of b
IsSubstring(a, b) ==
    \/ a = b
    \/ a = "smith" /\ b = "alice smith"
    \/ a = "bob jones" /\ b = "bob joneson"

\* ---------------------------------------------------------------- upstream
(* The items upstream can hold.  An item is what the query API returns as  *)
(* a result and what the feed returns as an entry: id, published (UTC      *)
(* wall clock, in ticks), authors, the lengths of title, summary and link, *)
(* the length of the journal reference (0: none) and the announce type of  *)
(* the feed.  Items 1 and 4 share an id: an update of a paper and its      *)
(* original.  Item 3 has a title that no rendering fits in a message.      *)
Catalog ==
    << [id |-> "a", published |-> 2, authors |-> << "alice smith", "Carol White" >>,
        titleLen |-> 40, summaryLen |-> 600, linkLen |-> 30,
        journalLen |-> 0, announce_type |-> "new"],
       [id |-> "b", published |-> 5, authors |-> << "Carol White", "Bob Jones" >>,
        titleLen |-> 40, summaryLen |-> 1500, linkLen |-> 30,
        journalLen |-> 0, announce_type |-> "new"],
       [id |-> "c", published |-> 3, authors |-> << "Alice Smith" >>,
        titleLen |-> 1950, summaryLen |-> 600, linkLen |-> 30,
        journalLen |-> 0, announce_type |-> "new"],
       [id |-> "a", published |-> 5, authors |-> << "alice smith", "Carol White" >>,
        titleLen |-> 40, summaryLen |-> 600, linkLen |-> 30,
        journalLen |-> 25, announce_type |-> "replace"] >>

Keys == DOMAIN Catalog

SeqsUpTo(S, n) == UNION { [1..m -> S] : m \in 0..n }

\* ------------------------------------------------------------- state files
Absent == [kind |-> "absent", t |-> 0]
Garbage == [kind |-> "garbage", t |-> 0]
\* datetime.isoformat(): the text of a timestamp with wall-clock value t
IsoFormat(t) == [kind |-> "iso", t |-> t]
\* os.path.exists
Exists(f) == f.kind # "absent"
\* datetime.fromisoformat succeeds
Parses(f) == f.kind = "iso"
\* datetime.date(): the calendar day of a wall-clock value
DateOf(t) == t \div DayLen
\* datetime.now(ZoneInfo('America/New_York')): Eastern wall clock at instant n
NowEastern(n) == n + EasternOff

VARIABLES
    now,                  \* the instant (UTC, ticks); datetime.now() is taken as UTC
    upstream,             \* what arXiv holds: a sequence of Catalog keys
    LAST_SUBMISSION_FILE, \* content of last_submission_date.txt
    LAST_RSS_CHECK_FILE,  \* content of last_rss_check.txt
    pc,                   \* position of the process
    SOURCE, NO_SAVE, NO_SEND, LAST_DATE_OVERRIDE, FORCE_RSS_CHECK,
    last_submission_date, \* the watermark the query fetch uses
    papers,               \* the fetched sequence (Catalog keys)
    idx,                  \* position of the delivery loop in papers
    posted_papers,        \* the in-run set of paper ids
    papers_posted,        \* the counter of sent messages
    sent,                 \* history: positions of papers whose message was sent
    formatted,            \* history: positions of papers that were formatted
    reads,                \* history: reads of the run's state file
    fetches,              \* history: requests made to the upstream service
    writes,               \* history: the pc at each write of a state file
    startFiles,           \* history: both files at the start of the run
    smResult              \* the last call of a component and its result (SpecSM, SpecCmp)

vars == << now, upstream, LAST_SUBMISSION_FILE, LAST_RSS_CHECK_FILE, pc,
           SOURCE, NO_SAVE, NO_SEND, LAST_DATE_OVERRIDE, FORCE_RSS_CHECK,
           last_submission_date, papers, idx, posted_papers, papers_posted,
           sent, formatted, reads, fetches, writes, startFiles, smResult >>

fileVars == << LAST_SUBMISSION_FILE, LAST_RSS_CHECK_FILE >>
cfgVars == << SOURCE, NO_SAVE, NO_SEND, LAST_DATE_OVERRIDE, FORCE_RSS_CHECK >>
loopVars == << papers, idx, posted_papers, papers_posted, sent, formatted >>
histVars == << reads, fetches, writes, startFiles >>

\* LAST_DATE_OVERRIDE is None
None == -1
NoResult == [op |-> "none", force |-> FALSE, no_save |-> FALSE, arg |-> 0,
             file |-> Absent, at |-> 0, ok |-> FALSE, value |-> 0]


\* ------------------------------------------------------------ small helpers
Min(a, b) == IF a <= b THEN a ELSE b
Max(a, b) == IF a >= b THEN a ELSE b
Range(s) == { s[i] : i \in DOMAIN s }
\* mutant of Prefix: the slice [:n] is not applied
PrefixWhole(s, n) == s
\* s[:n]
Prefix(s, n) == SubSeq(s, 1, Min(n, Len(s)))

RECURSIVE SumLen(_)
\* the summed len() of a sequence of names
SumLen(s) == IF s = << >> THEN 0 ELSE NameLen(Head(s)) + SumLen(Tail(s))

\* len(', '.join(names))
JoinLen(s) == IF s = << >> THEN 0 ELSE SumLen(s) + 2 * (Len(s) - 1)

\* max(paper['published'].replace(tzinfo=None) for paper in papers)
MaxPublished(ps) ==
    CHOOSE m \in { Catalog[k].published : k \in Range(ps) } :
        \A k \in Range(ps) : Catalog[k].published <= m

\* the sequence is ordered by published, ascending
SortedByPublished(ps) ==
    \A i, j \in DOMAIN ps :
        i < j => Catalog[ps[i]].published <= Catalog[ps[j]].published

\* ----------------------------------------------------- the upstream services
RECURSIVE InsertAsc(_, _)
InsertAsc(k, s) ==
    IF s = << >> THEN << k >>
    ELSE IF Catalog[k].published < Catalog[Head(s)].published
         THEN << k >> \o s
         ELSE << Head(s) >> \o InsertAsc(k, Tail(s))

RECURSIVE SortAsc(_)
\* sort_by=SubmittedDate, sort_order=Ascending, as the server applies it
SortAsc(s) ==
    IF s = << >> THEN << >>
    ELSE InsertAsc(s[Len(s)], SortAsc(SubSeq(s, 1, Len(s) - 1)))

(* The answer of the query API to the search of get_latest_papers_from_api: *)
(* the items submitted at or after the lower bound of                       *)
(* submittedDate:[<date> TO 99999999], oldest first, at most max_results.   *)
ApiSearch(db, since, max_results) ==
    LET AtOrAfter(k) == Catalog[k].published >= since
    IN  Prefix(SortAsc(SelectSeq(db, AtOrAfter)), max_results)

\* ---------------------------------------------------------------- matching
\* any(target.lower() == author.lower() for target in TARGET_AUTHORS for author in authors)
AnyTargetMatches(authors) ==
    \E i \in DOMAIN TARGET_AUTHORS : \E j \in DOMAIN authors :
        Lower(TARGET_AUTHORS[i]) = Lower(authors[j])

\* ------------------------------------------------- bot.py: fetching functions
\* get_latest_papers_from_rss: the entries of the feed, cut to max_results,
\* that have a watch-list author; the feed's order is kept
get_latest_papers_from_rss(feed, max_results) ==
    LET Matches(k) == AnyTargetMatches(Catalog[k].authors)
    IN  SelectSeq(Prefix(feed, max_results), Matches)

\* mutant of get_latest_papers_from_api: the query has no submittedDate bound
GetLatestIgnoresDate(db, since, max_results) ==
    Prefix(SortAsc(db), max_results)

\* get_latest_papers_from_api: the server's answer, normalized item by item
get_latest_papers_from_api(db, since, max_results) ==
    ApiSearch(db, since, max_results)

\* ---------------------------------------------- bot.py: reading the state
\* mutant of get_last_submission_date_from_file: a file that does not parse
\* is rewritten with the default, as an absent one is
GetLastSubmissionRewrites(file, n) ==
    IF Exists(file) /\ Parses(file)
    THEN [value |-> file.t, file |-> file]
    ELSE [value |-> n - DayLen, file |-> IsoFormat(n - DayLen)]

\* mutant of get_last_submission_date_from_file: the default is now, not
\* now minus one day
GetLastSubmissionNow(file, n) ==
    IF Exists(file)
    THEN IF Parses(file)
         THEN [value |-> file.t, file |-> file]
         ELSE [value |-> n, file |-> file]
    ELSE [value |-> n, file |-> IsoFormat(n)]

(* get_last_submission_date_from_file: the value returned and the file as  *)
(* the call leaves it.  An absent file is created with the default.        *)
get_last_submission_date_from_file(file, n) ==
    IF Exists(file)
    THEN IF Parses(file)
         THEN [value |-> file.t, file |-> file]
         ELSE [value |-> n - DayLen, file |-> file]
    ELSE [value |-> n - DayLen, file |-> IsoFormat(n - DayLen)]

(* already_checked_rss_today: the value returned and the file as the call  *)
(* leaves it.  An absent file is created with the current Eastern time.    *)
already_checked_rss_today(file, n) ==
    IF Exists(file)
    THEN IF Parses(file)
         THEN [value |-> DateOf(file.t) = DateOf(NowEastern(n)), file |-> file]
         ELSE [value |-> FALSE, file |-> file]
    ELSE [value |-> FALSE, file |-> IsoFormat(NowEastern(n))]

\* save_last_submission_time_to_file(time)
save_last_submission_time_to_file(time) == IsoFormat(time)

\* mutant of SaveRssCheck: the time of the check is written in UTC
SaveRssCheckUtc(n) == IsoFormat(n)

\* f.write(datetime.now(ZoneInfo('America/New_York')).isoformat())
SaveRssCheck(n) == IsoFormat(NowEastern(n))

\* -------------------------------------------- bot.py: building the message
\* target_in_result of build_target_authors_string, before the reordering
TargetInResult(result_authors) ==
    LET InResult(name) ==
            \E j \in DOMAIN result_authors : Lower(name) = Lower(result_authors[j])
    IN  SelectSeq(TARGET_AUTHORS, InResult)

\* the reordering loop: the first target that is a substring of the first
\* author is moved to the front
ReorderFirst(targets, first_author) ==
    LET hits == { i \in DOMAIN targets :
                    IsSubstring(Lower(targets[i]), Lower(first_author)) }
    IN  IF hits = {} THEN targets
        ELSE LET i == CHOOSE h \in hits : \A g \in hits : h <= g
             IN  << targets[i] >> \o SubSeq(targets, 1, i - 1)
                   \o SubSeq(targets, i + 1, Len(targets))

\* the ordered match list of build_target_authors_string (<< >>: "unknown")
TargetList(result_authors) ==
    LET t == TargetInResult(result_authors)
    IN  IF t = << >> THEN << >> ELSE ReorderFirst(t, result_authors[1])

\* len of one tagged author
TaggedLen(name) == IF name \in AUTHOR_DISCORD_IDS THEN TagLen ELSE NameLen(name)

RECURSIVE SumTagged(_)
SumTagged(s) == IF s = << >> THEN 0 ELSE TaggedLen(Head(s)) + SumTagged(Tail(s))

\* len(build_target_authors_string(...))
build_target_authors_string(result_authors) ==
    LET t == TargetList(result_authors)
    IN  IF t = << >> THEN UnknownLen
        ELSE IF Len(t) = 1 THEN SumTagged(t)
        ELSE SumTagged(t) + 2 * (Len(t) - 2) + 5

\* mutant of CheckArxivMessage: the length is not tested
CheckArxivMessageNoLimit(p, source) ==
    [ok |-> TRUE, form |-> "full", len |-> StdTemplateLen + p.titleLen]

(* The message check_arxiv builds for a paper p: [ok, len, form].  ok is   *)
(* FALSE when the loop does not get to the send; form is "update", "full", *)
(* "etal", or "raise" when paper['authors'][0] is evaluated on an empty    *)
(* author list (IndexError).                                               *)
CheckArxivMessage(p, source) ==
    LET target == build_target_authors_string(p.authors)
        summary == IF p.summaryLen > MAX_SUMMARY
                   THEN MAX_SUMMARY + ContinueMarkLen ELSE p.summaryLen
        journal_line == IF p.journalLen > 0 THEN JournalLineLen + p.journalLen ELSE 0
        rest == StdTemplateLen + target + p.titleLen + DateStrLen + summary
                  + journal_line + p.linkLen
        full == rest + JoinLen(p.authors)
        etal == rest + NameLen(p.authors[1]) + EtAlLen
    IN  IF source = "rss" /\ p.announce_type = "replace" /\ p.journalLen > 0
        THEN [ok |-> TRUE, form |-> "update",
              len |-> UpdateTemplateLen + target + p.linkLen + p.journalLen]
        ELSE IF full <= MAX_MSG THEN [ok |-> TRUE, form |-> "full", len |-> full]
        ELSE IF p.authors = << >> THEN [ok |-> FALSE, form |-> "raise", len |-> 0]
        ELSE IF etal <= MAX_MSG THEN [ok |-> TRUE, form |-> "etal", len |-> etal]
        ELSE [ok |-> FALSE, form |-> "etal", len |-> etal]

\* the message of the paper with Catalog key k
BuildMessage(k, source) == CheckArxivMessage(Catalog[k], source)


\* ------------------------------------------------------------ the bot.py run
TypeOK ==
    /\ now \in StartTime..MaxTime
    /\ upstream \in SeqsUpTo(Keys, MaxUpstream)
    /\ pc \in { "idle", "ready", "fetch", "loop", "done", "crashed",
                "config_error" }
    /\ SOURCE \in { "api", "rss" }
    /\ NO_SAVE \in BOOLEAN /\ NO_SEND \in BOOLEAN /\ FORCE_RSS_CHECK \in BOOLEAN
    /\ papers \in SeqsUpTo(Keys, MaxUpstream)
    /\ posted_papers \subseteq { Catalog[k].id : k \in Keys }
    /\ papers_posted \in 0..MaxUpstream

RunReset ==
    /\ last_submission_date = None
    /\ papers = << >>
    /\ idx = 1
    /\ posted_papers = {}
    /\ papers_posted = 0
    /\ sent = << >>
    /\ formatted = << >>
    /\ reads = 0
    /\ fetches = 0
    /\ writes = << >>

Init ==
    /\ now = StartTime
    /\ upstream \in SeqsUpTo(Keys, MaxUpstream)
    /\ LAST_SUBMISSION_FILE \in { Absent, Garbage, IsoFormat(StoredDate) }
    /\ LAST_RSS_CHECK_FILE \in { Absent, Garbage, IsoFormat(NowEastern(StartTime)) }
    /\ pc = "idle"
    /\ SOURCE = "rss" /\ NO_SAVE = FALSE /\ NO_SEND = FALSE
    /\ LAST_DATE_OVERRIDE = None /\ FORCE_RSS_CHECK = FALSE
    /\ RunReset
    /\ startFiles = << LAST_SUBMISSION_FILE, LAST_RSS_CHECK_FILE >>
    /\ smResult = NoResult

\* the clock advances between runs
Tick ==
    /\ pc = "idle"
    /\ now < MaxTime
    /\ now' = now + 1
    /\ UNCHANGED << upstream, fileVars, pc, cfgVars, last_submission_date,
                    loopVars, histVars, smResult >>

(* The module-level argument parsing of bot.py, up to asyncio.run(main()).  *)
(* source is the value of --source= ("": not given), lastdate the value of  *)
(* --lastdate= ("": not given, "bad": not ISO), the flags are the presence  *)
(* of --nosave, --nosend, --forcerss.                                       *)
ParsedSource(source) == IF source \in { "api", "rss" } THEN source ELSE "rss"
ParsedLastDate(lastdate) == IF lastdate = "iso" THEN OverrideDate ELSE None

\* the outcome of the parsing: the globals it sets, and whether one of the
\* two ValueErrors at the end of the module is raised
ParseArgv(source, lastdate, forcerss) ==
    LET src == ParsedSource(source)
        override == ParsedLastDate(lastdate)
    IN  [SOURCE |-> src, LAST_DATE_OVERRIDE |-> override,
         pc |-> IF \/ src = "rss" /\ override # None
                   \/ src = "api" /\ forcerss
                THEN "config_error" ELSE "ready"]

StartProcess(source, lastdate, nosave, nosend, forcerss) ==
    /\ pc = "idle"
    /\ SOURCE' = ParseArgv(source, lastdate, forcerss).SOURCE
    /\ LAST_DATE_OVERRIDE' = ParseArgv(source, lastdate, forcerss).LAST_DATE_OVERRIDE
    /\ NO_SAVE' = nosave
    /\ NO_SEND' = nosend
    /\ FORCE_RSS_CHECK' = forcerss
    /\ pc' = ParseArgv(source, lastdate, forcerss).pc
    /\ startFiles' = << LAST_SUBMISSION_FILE, LAST_RSS_CHECK_FILE >>
    /\ UNCHANGED << now, upstream, fileVars, last_submission_date, loopVars,
                    reads, fetches, writes, smResult >>

\* mutant of Begin: the state file is read before the channel is tested
BeginReadsFirst(resolved) ==
    /\ pc = "ready"
    /\ IF SOURCE = "api"
       THEN IF LAST_DATE_OVERRIDE # None
            THEN /\ last_submission_date' = LAST_DATE_OVERRIDE
                 /\ pc' = IF resolved THEN "fetch" ELSE "done"
                 /\ UNCHANGED << fileVars, reads, writes >>
            ELSE LET r == get_last_submission_date_from_file(LAST_SUBMISSION_FILE, now)
                 IN  /\ last_submission_date' = r.value
                     /\ LAST_SUBMISSION_FILE' = r.file
                     /\ reads' = reads + 1
                     /\ writes' = IF r.file # LAST_SUBMISSION_FILE
                                  THEN Append(writes, "read") ELSE writes
                     /\ pc' = IF resolved THEN "fetch" ELSE "done"
                     /\ UNCHANGED LAST_RSS_CHECK_FILE
       ELSE LET r == already_checked_rss_today(LAST_RSS_CHECK_FILE, now)
            IN  /\ LAST_RSS_CHECK_FILE' = r.file
                /\ reads' = reads + 1
                /\ writes' = IF r.file # LAST_RSS_CHECK_FILE
                             THEN Append(writes, "read") ELSE writes
                /\ pc' = IF ~resolved THEN "done"
                         ELSE IF r.value /\ ~FORCE_RSS_CHECK THEN "loop" ELSE "fetch"
                /\ UNCHANGED << LAST_SUBMISSION_FILE, last_submission_date >>
    /\ UNCHANGED << now, upstream, cfgVars, loopVars, fetches, startFiles, smResult >>

(* check_arxiv up to the call of the upstream service: the channel test  *)
(* (resolved says whether get_channel returned a text channel; if not,   *)
(* check_arxiv returns and on_ready closes the client), then             *)
(* fetch_latest_papers up to its call of the fetching function.          *)
Begin(resolved) ==
    /\ pc = "ready"
    /\ IF ~resolved
       THEN /\ pc' = "done"
            /\ UNCHANGED << fileVars, last_submission_date, reads, writes >>
       ELSE IF SOURCE = "api"
       THEN IF LAST_DATE_OVERRIDE # None
            THEN /\ last_submission_date' = LAST_DATE_OVERRIDE
                 /\ pc' = "fetch"
                 /\ UNCHANGED << fileVars, reads, writes >>
            ELSE LET r == get_last_submission_date_from_file(LAST_SUBMISSION_FILE, now)
                 IN  /\ last_submission_date' = r.value
                     /\ LAST_SUBMISSION_FILE' = r.file
                     /\ reads' = reads + 1
                     /\ writes' = IF r.file # LAST_SUBMISSION_FILE
                                  THEN Append(writes, "read") ELSE writes
                     /\ pc' = "fetch"
                     /\ UNCHANGED LAST_RSS_CHECK_FILE
       ELSE LET r == already_checked_rss_today(LAST_RSS_CHECK_FILE, now)
            IN  /\ LAST_RSS_CHECK_FILE' = r.file
                /\ reads' = reads + 1
                /\ writes' = IF r.file # LAST_RSS_CHECK_FILE
                             THEN Append(writes, "read") ELSE writes
                /\ pc' = IF r.value /\ ~FORCE_RSS_CHECK THEN "loop" ELSE "fetch"
                /\ UNCHANGED << LAST_SUBMISSION_FILE, last_submission_date >>
    /\ UNCHANGED << now, upstream, cfgVars, loopVars, fetches, startFiles, smResult >>

(* The call of the upstream service.  up says whether the service answers. *)
(* A failing query API raises out of get_latest_papers_from_api, which     *)
(* nothing in bot.py catches; a failing feed makes feedparser.parse return *)
(* a document with no entries.                                             *)
Fetch(up) ==
    /\ pc = "fetch"
    /\ IF SOURCE = "api"
       THEN IF up
            THEN /\ papers' = get_latest_papers_from_api(upstream, last_submission_date,
                                                         MaxResults)
                 /\ pc' = "loop"
            ELSE /\ pc' = "crashed"
                 /\ UNCHANGED papers
       ELSE /\ papers' = get_latest_papers_from_rss(IF up THEN upstream ELSE << >>,
                                                    MaxResults)
            /\ pc' = "loop"
    /\ fetches' = fetches + 1
    /\ UNCHANGED << now, upstream, fileVars, cfgVars, last_submission_date, idx,
                    posted_papers, papers_posted, sent, formatted, reads, writes,
                    startFiles, smResult >>

\* mutant of LoopPos: the loop walks the fetched sequence backwards
LoopPosReversed(i, n) == n - i + 1

\* `for paper in papers`: the position the i-th iteration visits, of n
LoopPos(i, n) == i

\* mutant of MarkPosted: the id is not recorded
MarkPostedForgets(posted, paper_id) == posted

\* posted_papers.add(paper_id)
MarkPosted(posted, paper_id) == posted \cup { paper_id }

\* mutant of NewWatermark: the one-second pad is left out
NewWatermarkNoPad(ps) == MaxPublished(ps)

\* the value check_arxiv saves: the latest published time plus one second
NewWatermark(ps) == MaxPublished(ps) + 1

(* One iteration of the delivery loop of check_arxiv, on papers[idx].      *)
(* delivered says whether channel.send returns; when it raises, nothing in *)
(* bot.py catches the exception and the rest of check_arxiv is not run.    *)
Deliver(delivered) ==
    /\ pc = "loop"
    /\ idx <= Len(papers)
    /\ LET pos == LoopPos(idx, Len(papers))
           k == papers[pos]
           paper_id == Catalog[k].id
           message == BuildMessage(k, SOURCE)
       IN  IF paper_id \in posted_papers
           THEN /\ idx' = idx + 1
                /\ UNCHANGED << pc, posted_papers, papers_posted, sent, formatted >>
           ELSE /\ posted_papers' = MarkPosted(posted_papers, paper_id)
                /\ formatted' = Append(formatted, pos)
                /\ IF message.form = "raise"
                   THEN /\ pc' = "crashed"
                        /\ UNCHANGED << idx, papers_posted, sent >>
                   ELSE IF ~message.ok \/ NO_SEND
                   THEN /\ idx' = idx + 1
                        /\ UNCHANGED << pc, papers_posted, sent >>
                   ELSE IF delivered
                        THEN /\ sent' = Append(sent, pos)
                             /\ papers_posted' = papers_posted + 1
                             /\ idx' = idx + 1
                             /\ UNCHANGED pc
                        ELSE /\ pc' = "crashed"
                             /\ UNCHANGED << idx, papers_posted, sent >>
    /\ UNCHANGED << now, upstream, fileVars, cfgVars, last_submission_date,
                    papers, histVars, smResult >>

\* mutant of EndOfRun: a query run also writes the feed's day marker
EndOfRunMarksFeed ==
    /\ pc = "loop"
    /\ idx > Len(papers)
    /\ pc' = "done"
    /\ IF NO_SAVE
       THEN UNCHANGED << fileVars, writes >>
       ELSE /\ LAST_RSS_CHECK_FILE' = SaveRssCheck(now)
            /\ LAST_SUBMISSION_FILE' =
                   IF papers_posted > 0 /\ SOURCE = "api"
                   THEN save_last_submission_time_to_file(NewWatermark(papers))
                   ELSE LAST_SUBMISSION_FILE
            /\ writes' = Append(writes, "end")
    /\ UNCHANGED << now, upstream, cfgVars, last_submission_date, loopVars,
                    reads, fetches, startFiles, smResult >>

\* mutant of EndOfRun: a query run saves whenever it fetched a paper
EndOfRunSavesWhenFetched ==
    /\ pc = "loop"
    /\ idx > Len(papers)
    /\ pc' = "done"
    /\ IF papers # << >> /\ SOURCE = "api"
       THEN IF NO_SAVE
            THEN UNCHANGED << fileVars, writes >>
            ELSE /\ LAST_SUBMISSION_FILE' =
                        save_last_submission_time_to_file(NewWatermark(papers))
                 /\ writes' = Append(writes, "end")
                 /\ UNCHANGED LAST_RSS_CHECK_FILE
       ELSE IF SOURCE = "rss"
            THEN IF NO_SAVE
                 THEN UNCHANGED << fileVars, writes >>
                 ELSE /\ LAST_RSS_CHECK_FILE' = SaveRssCheck(now)
                      /\ writes' = Append(writes, "end")
                      /\ UNCHANGED LAST_SUBMISSION_FILE
            ELSE UNCHANGED << fileVars, writes >>
    /\ UNCHANGED << now, upstream, cfgVars, last_submission_date, loopVars,
                    reads, fetches, startFiles, smResult >>

\* the end of check_arxiv, the save of the run's watermark, and the
\* self.close() of on_ready that follows it
EndOfRun ==
    /\ pc = "loop"
    /\ idx > Len(papers)
    /\ pc' = "done"
    /\ IF papers_posted > 0 /\ SOURCE = "api"
       THEN IF NO_SAVE
            THEN UNCHANGED << fileVars, writes >>
            ELSE /\ LAST_SUBMISSION_FILE' =
                        save_last_submission_time_to_file(NewWatermark(papers))
                 /\ writes' = Append(writes, "end")
                 /\ UNCHANGED LAST_RSS_CHECK_FILE
       ELSE IF SOURCE = "rss"
            THEN IF NO_SAVE
                 THEN UNCHANGED << fileVars, writes >>
                 ELSE /\ LAST_RSS_CHECK_FILE' = SaveRssCheck(now)
                      /\ writes' = Append(writes, "end")
                      /\ UNCHANGED LAST_SUBMISSION_FILE
            ELSE UNCHANGED << fileVars, writes >>
    /\ UNCHANGED << now, upstream, cfgVars, last_submission_date, loopVars,
                    reads, fetches, startFiles, smResult >>

\* the process is killed in the middle of check_arxiv
Kill ==
    /\ pc \in { "fetch", "loop" }
    /\ pc' = "crashed"
    /\ UNCHANGED << now, upstream, fileVars, cfgVars, last_submission_date,
                    loopVars, histVars, smResult >>

\* the process is over; the next invocation starts with fresh globals
Exit ==
    /\ pc \in { "done", "crashed", "config_error" }
    /\ pc' = "idle"
    /\ last_submission_date' = None
    /\ papers' = << >>
    /\ idx' = 1
    /\ posted_papers' = {}
    /\ papers_posted' = 0
    /\ sent' = << >>
    /\ formatted' = << >>
    /\ reads' = 0
    /\ fetches' = 0
    /\ writes' = << >>
    /\ startFiles' = << LAST_SUBMISSION_FILE, LAST_RSS_CHECK_FILE >>
    /\ SOURCE' = "rss" /\ NO_SAVE' = FALSE /\ NO_SEND' = FALSE
    /\ LAST_DATE_OVERRIDE' = None /\ FORCE_RSS_CHECK' = FALSE
    /\ UNCHANGED << now, upstream, fileVars, smResult >>

Next ==
    \/ Tick
    \/ \E source \in { "", "api", "rss", "bogus" }, lastdate \in { "", "iso", "bad" },
          nosave \in BOOLEAN, nosend \in BOOLEAN, forcerss \in BOOLEAN :
          StartProcess(source, lastdate, nosave, nosend, forcerss)
    \/ \E resolved \in BOOLEAN : Begin(resolved)
    \/ \E up \in BOOLEAN : Fetch(up)
    \/ \E delivered \in BOOLEAN : Deliver(delivered)
    \/ EndOfRun
    \/ Kill
    \/ Exit

Spec == Init /\ [][Next]_vars

(* The runs that nothing stops from outside: Next without Kill.  The event *)
(* loop runs every step of check_arxiv that can be taken, so each step of  *)
(* a run is weakly fair; the start of a process, the passing of time and   *)
(* the end of the process are not.  In this specification pc = "crashed"   *)
(* only comes from an exception that leaves check_arxiv; on_ready then     *)
(* does not reach its self.close(), and the client stays connected; Exit   *)
(* from there is the operator stopping the process.                        *)
NextLive ==
    \/ Tick
    \/ \E source \in { "", "api", "rss", "bogus" }, lastdate \in { "", "iso", "bad" },
          nosave \in BOOLEAN, nosend \in BOOLEAN, forcerss \in BOOLEAN :
          StartProcess(source, lastdate, nosave, nosend, forcerss)
    \/ \E resolved \in BOOLEAN : Begin(resolved)
    \/ \E up \in BOOLEAN : Fetch(up)
    \/ \E delivered \in BOOLEAN : Deliver(delivered)
    \/ EndOfRun
    \/ Exit

SpecLive ==
    /\ Init
    /\ [][NextLive]_vars
    /\ WF_vars(\E resolved \in BOOLEAN : Begin(resolved))
    /\ WF_vars(\E up \in BOOLEAN : Fetch(up))
    /\ WF_vars(\E delivered \in BOOLEAN : Deliver(delivered))
    /\ WF_vars(EndOfRun)


\* ------------------------------------------------ state_manager.py: StateManager
(* The four methods of StateManager, as functions of the settings they     *)
(* read, the file and the instant.  The reading methods return a value;    *)
(* the saving methods return the file as they leave it.                    *)

\* StateManager._default_past_date
default_past_date(n) == n - DayLen

\* StateManager.get_last_api_check_time; override is settings.last_date_override
get_last_api_check_time(override, file, n) ==
    IF override # None THEN override
    ELSE IF Exists(file)
         THEN IF Parses(file) THEN file.t ELSE default_past_date(n)
         ELSE default_past_date(n)

\* StateManager.save_last_api_check_time(time)
save_last_api_check_time(no_save, file, time) ==
    IF no_save THEN file ELSE IsoFormat(time + 1)

\* StateManager._get_last_rss_check_date_from_file: [found, date]
get_last_rss_check_date_from_file(file) ==
    IF Exists(file) /\ Parses(file)
    THEN [found |-> TRUE, date |-> DateOf(file.t)]
    ELSE [found |-> FALSE, date |-> 0]

\* mutant of has_checked_rss_today: today is taken in UTC, not Eastern time
HasCheckedUtcDay(force, file, n) ==
    IF force THEN FALSE
    ELSE LET last_check_date == get_last_rss_check_date_from_file(file)
         IN  IF ~last_check_date.found THEN FALSE
             ELSE last_check_date.date = DateOf(n)

\* StateManager.has_checked_rss_today; force is settings.force_rss_check
has_checked_rss_today(force, file, n) ==
    IF force THEN FALSE
    ELSE LET last_check_date == get_last_rss_check_date_from_file(file)
         IN  IF ~last_check_date.found THEN FALSE
             ELSE last_check_date.date = DateOf(NowEastern(n))

\* StateManager.save_rss_check_time
save_rss_check_time(no_save, file, n) ==
    IF no_save THEN file ELSE IsoFormat(NowEastern(n))

CallGetLastApiCheckTime(override) ==
    /\ smResult' = [NoResult EXCEPT !.op = "get_last_api_check_time",
                       !.arg = override, !.file = LAST_SUBMISSION_FILE, !.at = now,
                       !.value = get_last_api_check_time(override,
                                                         LAST_SUBMISSION_FILE, now)]
    /\ UNCHANGED << now, upstream, fileVars, pc, cfgVars, last_submission_date,
                    loopVars, histVars >>

CallSaveLastApiCheckTime(no_save, time) ==
    /\ LAST_SUBMISSION_FILE' = save_last_api_check_time(no_save, LAST_SUBMISSION_FILE, time)
    /\ smResult' = [NoResult EXCEPT !.op = "save_last_api_check_time",
                       !.no_save = no_save, !.arg = time,
                       !.file = LAST_SUBMISSION_FILE, !.at = now]
    /\ UNCHANGED << now, upstream, LAST_RSS_CHECK_FILE, pc, cfgVars,
                    last_submission_date, loopVars, histVars >>

CallHasCheckedRssToday(force) ==
    /\ smResult' = [NoResult EXCEPT !.op = "has_checked_rss_today",
                       !.force = force, !.file = LAST_RSS_CHECK_FILE, !.at = now,
                       !.ok = has_checked_rss_today(force, LAST_RSS_CHECK_FILE, now)]
    /\ UNCHANGED << now, upstream, fileVars, pc, cfgVars, last_submission_date,
                    loopVars, histVars >>

CallSaveRssCheckTime(no_save) ==
    /\ LAST_RSS_CHECK_FILE' = save_rss_check_time(no_save, LAST_RSS_CHECK_FILE, now)
    /\ smResult' = [NoResult EXCEPT !.op = "save_rss_check_time",
                       !.no_save = no_save, !.file = LAST_RSS_CHECK_FILE, !.at = now]
    /\ UNCHANGED << now, upstream, LAST_SUBMISSION_FILE, pc, cfgVars,
                    last_submission_date, loopVars, histVars >>

\* the clock of SpecSM
TickSM ==
    /\ now < MaxTime
    /\ now' = now + 1
    /\ UNCHANGED << upstream, fileVars, pc, cfgVars, last_submission_date,
                    loopVars, histVars, smResult >>

InitSM ==
    /\ Init
    /\ upstream = << >>

NextSM ==
    \/ TickSM
    \/ \E override \in { None, OverrideDate } : CallGetLastApiCheckTime(override)
    \/ \E no_save \in BOOLEAN, time \in { StoredDate - 1, StoredDate, StoredDate + 2 } :
          CallSaveLastApiCheckTime(no_save, time)
    \/ \E force \in BOOLEAN : CallHasCheckedRssToday(force)
    \/ \E no_save \in BOOLEAN : CallSaveRssCheckTime(no_save)

SpecSM == InitSM /\ [][NextSM]_vars


\* --------------------------------------- arxiv_fetcher.py: ArxivFetcher
\* mutant of is_author_match: a watch-list name that is a substring of an
\* author counts as a match
IsAuthorMatchSubstring(paper_authors) ==
    \E i \in DOMAIN TARGET_AUTHORS : \E j \in DOMAIN paper_authors :
        IsSubstring(Lower(TARGET_AUTHORS[i]), Lower(paper_authors[j]))

\* ArxivFetcher._is_author_match: the two lower-cased sets are not disjoint
is_author_match(paper_authors) ==
    LET target_authors_lower == { Lower(TARGET_AUTHORS[i]) : i \in DOMAIN TARGET_AUTHORS }
        paper_authors_lower == { Lower(paper_authors[j]) : j \in DOMAIN paper_authors }
    IN  target_authors_lower \cap paper_authors_lower # {}

(* A raw entry of the feed is [authors, defect]: authors are the names of  *)
(* its author field, defect says what is wrong with the entry: "none",     *)
(* "no_id" (no id field), "no_authors" (author field missing or not in the *)
(* expected form) or "bad_date" (no date that parses).  The result of a    *)
(* feed function is [raised, papers]: papers are the positions, in the     *)
(* feed, of the entries returned, in the order returned.                   *)

\* the HTTP status from which the feed is taken as failed
HTTP_ERROR == 400

\* ArxivFetcher._normalize_rss_entry: the authors of the Paper returned, or
\* found = FALSE when the function returns None
normalize_rss_entry(entry) ==
    IF entry.defect \in { "no_id", "bad_date" }
    THEN [found |-> FALSE, authors |-> << >>]
    ELSE IF entry.defect = "no_authors"
    THEN [found |-> TRUE, authors |-> << >>]
    ELSE [found |-> TRUE, authors |-> entry.authors]

\* mutant of StatusIsError: the bound itself is let through
StatusIsErrorAbove(status) == status # None /\ status > HTTP_ERROR

\* isinstance(status, int) and status >= 400
StatusIsError(status) == status # None /\ status >= HTTP_ERROR

\* mutant of fetch_from_rss: the author filter is left out
FetchFromRssNoFilter(status, entries, max_results) ==
    IF StatusIsError(status) THEN [raised |-> FALSE, papers |-> << >>]
    ELSE LET Keep(i) == normalize_rss_entry(entries[i]).found
             positions == [i \in DOMAIN Prefix(entries, max_results) |-> i]
         IN  [raised |-> FALSE, papers |-> SelectSeq(positions, Keep)]

\* ArxivFetcher._fetch_from_rss, given the status and the entries that
\* feedparser.parse returns
fetch_from_rss(status, entries, max_results) ==
    IF StatusIsError(status) THEN [raised |-> FALSE, papers |-> << >>]
    ELSE LET Keep(i) ==
                 LET paper == normalize_rss_entry(entries[i])
                 IN  paper.found /\ is_author_match(paper.authors)
             positions == [i \in DOMAIN Prefix(entries, max_results) |-> i]
         IN  [raised |-> FALSE, papers |-> SelectSeq(positions, Keep)]

\* ArxivFetcher._fetch_from_api, given whether the API call returns and the
\* results it returns: every result is normalized and returned
fetch_from_api(up, results) ==
    IF up THEN [raised |-> FALSE, papers |-> [i \in DOMAIN results |-> i]]
    ELSE [raised |-> FALSE, papers |-> << >>]

(* get_latest_papers_from_rss of bot.py on raw entries.  An entry without  *)
(* a usable author field raises ValueError; an entry that matches and has  *)
(* no id raises AttributeError at entry.id; an entry that matches and      *)
(* whose date does not parse is skipped.                                   *)
GetLatestPapersFromRssEntries(entries, max_results) ==
    LET considered == Prefix(entries, max_results)
        Matches(i) == AnyTargetMatches(considered[i].authors)
        Raises(i) ==
            \/ considered[i].defect = "no_authors"
            \/ considered[i].defect = "no_id" /\ Matches(i)
        Keep(i) == considered[i].defect = "none" /\ Matches(i)
        positions == [i \in DOMAIN considered |-> i]
    IN  IF \E i \in DOMAIN considered : Raises(i)
        THEN [raised |-> TRUE, papers |-> << >>]
        ELSE [raised |-> FALSE, papers |-> SelectSeq(positions, Keep)]

\* ------------------------------------------------ discord_formatter.py
MAX_SUMMARY_LEN == 1400
MAX_DISCORD_MSG_LEN == 2000
\* len("... [truncated]")
TruncatedMarkLen == 15
\* literal characters of message_template
FmtTemplateLen == 82
\* literal characters of the update message
FmtUpdateTemplateLen == 99
\* len("tracked authors")
TrackedAuthorsLen == 15
\* len("Unknown")
UnknownAuthorLen == 7

\* target_in_paper of _build_target_authors_string, before the reordering
target_in_paper(paper_authors) ==
    LET paper_authors_lower == { Lower(paper_authors[j]) : j \in DOMAIN paper_authors }
        InPaper(target) == Lower(target) \in paper_authors_lower
    IN  SelectSeq(TARGET_AUTHORS, InPaper)

\* the ordered match list of _build_target_authors_string: the first target
\* that equals the first author, lower-cased, is moved to the front
FormatterTargetList(paper_authors) ==
    LET t == target_in_paper(paper_authors)
    IN  IF t = << >> \/ paper_authors = << >> THEN t
        ELSE LET hits == { i \in DOMAIN t : Lower(t[i]) = Lower(paper_authors[1]) }
             IN  IF hits = {} THEN t
                 ELSE LET i == CHOOSE h \in hits : \A g \in hits : h <= g
                      IN  << t[i] >> \o SubSeq(t, 1, i - 1) \o SubSeq(t, i + 1, Len(t))

\* len(_build_target_authors_string(...))
formatter_build_target_authors_string(paper_authors) ==
    LET t == FormatterTargetList(paper_authors)
    IN  IF t = << >> THEN TrackedAuthorsLen
        ELSE IF Len(t) = 1 THEN SumTagged(t)
        ELSE IF Len(t) = 2 THEN SumTagged(t) + 5
        ELSE SumTagged(t) + 2 * (Len(t) - 2) + 6

(* format_paper_message(paper, settings): [form, len].  form is "update",  *)
(* "full", "etal", or "none" when the function returns None.               *)
format_paper_message(p, source) ==
    LET target == formatter_build_target_authors_string(p.authors)
        summary == IF p.summaryLen > MAX_SUMMARY_LEN
                   THEN MAX_SUMMARY_LEN + TruncatedMarkLen ELSE p.summaryLen
        journal_line == IF p.journalLen > 0 THEN JournalLineLen + p.journalLen ELSE 0
        rest == FmtTemplateLen + target + p.titleLen + DateStrLen + summary
                  + journal_line + p.linkLen
        full == rest + JoinLen(p.authors)
        first_author == IF p.authors # << >> THEN NameLen(p.authors[1])
                        ELSE UnknownAuthorLen
        etal == rest + first_author + EtAlLen
        update == FmtUpdateTemplateLen + target + p.linkLen + p.journalLen
    IN  IF source = "rss" /\ p.announce_type = "replace" /\ p.journalLen > 0
        THEN IF update > MAX_DISCORD_MSG_LEN
             THEN [form |-> "none", len |-> 0]
             ELSE [form |-> "update", len |-> update]
        ELSE IF full <= MAX_DISCORD_MSG_LEN THEN [form |-> "full", len |-> full]
        ELSE IF etal <= MAX_DISCORD_MSG_LEN THEN [form |-> "etal", len |-> etal]
        ELSE [form |-> "none", len |-> 0]

\* ------------------------------------------------------------ settings.py
(* load_settings and AppSettings.__post_init__: "exit" when argparse or    *)
(* the --lastdate parsing ends the process, "raise" when the validation of  *)
(* __post_init__ raises ValueError, "settings" when settings are returned. *)
load_settings(source, lastdate, forcerss) ==
    LET src == IF source = "" THEN "rss" ELSE source
        override == IF lastdate = "iso" THEN OverrideDate ELSE None
    IN  IF source \notin { "", "api", "rss" }
        THEN [outcome |-> "exit", source |-> "", last_date_override |-> None]
        ELSE IF lastdate = "bad"
        THEN [outcome |-> "exit", source |-> "", last_date_override |-> None]
        ELSE IF \/ src = "rss" /\ override # None
                \/ src = "api" /\ forcerss
        THEN [outcome |-> "raise", source |-> src, last_date_override |-> override]
        ELSE [outcome |-> "settings", source |-> src, last_date_override |-> override]

\* ------------------------------------------- the components, called alone
\* the longest author list given to the matcher and to the match list
MaxAuthors == 3

\* the author lists the calls are made with
AuthorLists == SeqsUpTo(Names, MaxAuthors)

(* The papers the formatters are called with.  The title lengths are a     *)
(* short one, one with which only the "et al." rendering of a three-author *)
(* paper fits, and one with which nothing fits; the journal reference is   *)
(* absent, short, or too long for any message.                             *)
PaperInputs ==
    [ authors : { << >>, << "Alice Smith" >>, << "alice smith", "Carol White" >>,
                  << "Carol White", "Bob Jones", "Alice Smith" >> },
      titleLen : { 40, 1210, 1950 },
      summaryLen : { 600, 1500 },
      linkLen : { 30 },
      journalLen : { 0, 25, 1900 },
      announce_type : { "new", "replace" } ]

\* the longest feed given to the feed functions
MaxFeed == 3

\* the raw entries of the feeds
EntryInputs ==
    [ authors : { << "alice smith" >>, << "Bob Joneson", "Carol White" >> },
      defect : { "none", "no_id", "no_authors", "bad_date" } ]

\* the feeds and the API answers the fetch functions are called with
FeedInputs == SeqsUpTo(EntryInputs, MaxFeed)
ApiResultInputs == SeqsUpTo({ e \in EntryInputs : e.defect = "none" }, MaxFeed)

\* the final HTTP statuses of the feed request: none, success, the last
\* status below the error bound, the bound, a server error
StatusInputs == { None, 200, HTTP_ERROR - 1, HTTP_ERROR, 500 }

cmpFrame == << now, upstream, fileVars, pc, cfgVars, last_submission_date,
               loopVars, histVars >>

(* Each call is made on its own, from the initial state: the functions     *)
(* keep no state between calls.                                            *)

\* ArxivFetcher._is_author_match and the filter of get_latest_papers_from_rss
CallIsAuthorMatch(paper_authors) ==
    /\ smResult = NoResult
    /\ smResult' = [op |-> "_is_author_match", authors |-> paper_authors,
                    ok |-> is_author_match(paper_authors),
                    rss |-> AnyTargetMatches(paper_authors)]
    /\ UNCHANGED cmpFrame

\* the ordered match list of the two build_target_authors_string functions
CallBuildTargetAuthorsString(paper_authors) ==
    /\ smResult = NoResult
    /\ smResult' = [op |-> "build_target_authors_string", authors |-> paper_authors,
                    formatter |-> FormatterTargetList(paper_authors),
                    bot |-> TargetList(paper_authors)]
    /\ UNCHANGED cmpFrame

\* discord_formatter.format_paper_message
CallFormatPaperMessage(p, source) ==
    /\ smResult = NoResult
    /\ smResult' = [op |-> "format_paper_message", paper |-> p, source |-> source,
                    message |-> format_paper_message(p, source)]
    /\ UNCHANGED cmpFrame

\* the message building of check_arxiv
CallCheckArxivMessage(p, source) ==
    /\ smResult = NoResult
    /\ smResult' = [op |-> "check_arxiv", paper |-> p, source |-> source,
                    message |-> CheckArxivMessage(p, source)]
    /\ UNCHANGED cmpFrame

\* settings.load_settings
CallLoadSettings(source, lastdate, forcerss) ==
    /\ smResult = NoResult
    /\ smResult' = [op |-> "load_settings", source |-> source, lastdate |-> lastdate,
                    forcerss |-> forcerss,
                    result |-> load_settings(source, lastdate, forcerss)]
    /\ UNCHANGED cmpFrame

\* the argument parsing of bot.py
CallParseArgv(source, lastdate, forcerss) ==
    /\ smResult = NoResult
    /\ smResult' = [op |-> "argv", source |-> source, lastdate |-> lastdate,
                    forcerss |-> forcerss,
                    result |-> ParseArgv(source, lastdate, forcerss)]
    /\ UNCHANGED cmpFrame

\* ArxivFetcher._fetch_from_rss
CallFetchFromRss(status, entries, max_results) ==
    /\ smResult = NoResult
    /\ smResult' = [op |-> "_fetch_from_rss", status |-> status, entries |-> entries,
                    max_results |-> max_results,
                    result |-> fetch_from_rss(status, entries, max_results)]
    /\ UNCHANGED cmpFrame

\* get_latest_papers_from_rss of bot.py
CallGetLatestPapersFromRss(entries, max_results) ==
    /\ smResult = NoResult
    /\ smResult' = [op |-> "get_latest_papers_from_rss", status |-> None,
                    entries |-> entries, max_results |-> max_results,
                    result |-> GetLatestPapersFromRssEntries(entries, max_results)]
    /\ UNCHANGED cmpFrame

\* ArxivFetcher._fetch_from_api
CallFetchFromApi(up, results) ==
    /\ smResult = NoResult
    /\ smResult' = [op |-> "_fetch_from_api", up |-> up, entries |-> results,
                    result |-> fetch_from_api(up, results)]
    /\ UNCHANGED cmpFrame

InitCmp ==
    /\ Init
    /\ upstream = << >>
    /\ LAST_SUBMISSION_FILE = Absent
    /\ LAST_RSS_CHECK_FILE = Absent

NextCmp ==
    \/ \E a \in AuthorLists : CallIsAuthorMatch(a)
    \/ \E a \in AuthorLists : CallBuildTargetAuthorsString(a)
    \/ \E p \in PaperInputs, source \in { "api", "rss" } : CallFormatPaperMessage(p, source)
    \/ \E p \in PaperInputs, source \in { "api", "rss" } : CallCheckArxivMessage(p, source)
    \/ \E source \in { "", "api", "rss", "bogus" }, lastdate \in { "", "iso", "bad" },
          forcerss \in BOOLEAN : CallLoadSettings(source, lastdate, forcerss)
    \/ \E source \in { "", "api", "rss", "bogus" }, lastdate \in { "", "iso", "bad" },
          forcerss \in BOOLEAN : CallParseArgv(source, lastdate, forcerss)
    \/ /\ smResult = NoResult
       /\ \E status \in StatusInputs, entries \in FeedInputs, max_results \in 1..MaxResults :
             CallFetchFromRss(status, entries, max_results)
    \/ /\ smResult = NoResult
       /\ \E entries \in FeedInputs, max_results \in 1..MaxResults :
             CallGetLatestPapersFromRss(entries, max_results)
    \/ /\ smResult = NoResult
       /\ \E up \in BOOLEAN, results \in ApiResultInputs : CallFetchFromApi(up, results)

SpecCmp == InitCmp /\ [][NextCmp]_vars


\* ------------------------------------------------------------------- claims
IdAt(q) == Catalog[papers[q]].id
PublishedAt(q) == Catalog[papers[q]].published
\* the state file of the run's source, as it was when the run started
SourceFileAtStart == IF SOURCE = "api" THEN startFiles[1] ELSE startFiles[2]
\* the run got past the channel test
Started ==
    \/ pc \in { "fetch", "loop", "crashed" }
    \/ pc = "done" /\ (reads > 0 \/ last_submission_date # None)
\* every fetched paper has a rendering that fits
AllFormatOK == \A q \in DOMAIN papers : BuildMessage(papers[q], SOURCE).ok

(* C1: in a single run each paper id is formatted and sent at most once;   *)
(* only the first occurrence of an id in the fetched sequence is formatted *)
(* (and possibly sent), every later occurrence is skipped.                 *)
C1_Dedupe ==
    /\ \A i, j \in DOMAIN sent : i # j => IdAt(sent[i]) # IdAt(sent[j])
    /\ \A i, j \in DOMAIN formatted : i # j => IdAt(formatted[i]) # IdAt(formatted[j])
    /\ Range(sent) \subseteq Range(formatted)
    /\ \A q \in Range(formatted) : \A e \in 1..(q - 1) : IdAt(e) # IdAt(q)
    /\ pc \in { "loop", "done" } =>
          \A q \in 1..(idx - 1) :
              (\A e \in 1..(q - 1) : IdAt(e) # IdAt(q)) => q \in Range(formatted)

\* a fetched sequence lists an id twice, the first occurrence was sent and
\* the loop has passed the second
C1_Witness ==
    \E i, j \in DOMAIN papers :
        /\ i < j /\ IdAt(i) = IdAt(j)
        /\ idx > j
        /\ i \in Range(sent)
        /\ j \notin Range(formatted)

(* C2, as stated: after a query-source run with no failures that fetched   *)
(* at least one paper, the persisted query watermark is                    *)
(* max(published of the fetched papers) + 1 second.                        *)
C2_Original ==
    (pc = "done" /\ SOURCE = "api" /\ Len(papers) >= 1 /\ AllFormatOK)
        => LAST_SUBMISSION_FILE = IsoFormat(MaxPublished(papers) + 1)

(* C2, amended: the same, for a run without --nosave and without --nosend. *)
C2_Amended ==
    (pc = "done" /\ SOURCE = "api" /\ Len(papers) >= 1 /\ AllFormatOK
        /\ ~NO_SAVE /\ ~NO_SEND)
        => LAST_SUBMISSION_FILE = IsoFormat(MaxPublished(papers) + 1)

\* a finished query run that fetched two papers with different published
\* times and sent both
C2_Witness ==
    /\ pc = "done" /\ SOURCE = "api" /\ ~NO_SAVE /\ ~NO_SEND /\ AllFormatOK
    /\ Len(papers) = 2 /\ Len(sent) = 2
    /\ PublishedAt(1) < PublishedAt(2)
    /\ LAST_SUBMISSION_FILE = IsoFormat(PublishedAt(2) + 1)

(* C3: for both source kinds and every upstream content and order, the     *)
(* sequence fetch_latest_papers returns is sorted by published, ascending. *)
C3_Sorted ==
    pc \in { "loop", "done", "crashed" } => SortedByPublished(papers)

(* C4: papers are sent one at a time and in the order of the fetched       *)
(* sequence: of two sent papers the one earlier in the sequence was sent   *)
(* first.                                                                  *)
C4_InOrder ==
    /\ \A i, j \in DOMAIN sent : i < j => sent[i] < sent[j]
    /\ Len(sent) = papers_posted
    /\ Range(sent) \subseteq 1..Min(idx, Len(papers))

\* two papers with published times T1 < T2 were both sent, T1 first
C4_Witness ==
    /\ Len(sent) = 2
    /\ PublishedAt(sent[1]) < PublishedAt(sent[2])

(* C5: across any sequence of query-source runs the persisted query        *)
(* watermark never decreases.                                              *)
C5_Monotone ==
    [][ (Parses(LAST_SUBMISSION_FILE) /\ Parses(LAST_SUBMISSION_FILE'))
          => LAST_SUBMISSION_FILE'.t >= LAST_SUBMISSION_FILE.t ]_vars


C7_CrashSafe ==
    pc = "crashed" =>
        /\ (SOURCE = "rss"
              /\ ~already_checked_rss_today(startFiles[2], now).value
              /\ \E k \in Range(get_latest_papers_from_rss(upstream, MaxResults)) :
                     Catalog[k].id \notin { IdAt(q) : q \in Range(sent) })
            => ~already_checked_rss_today(LAST_RSS_CHECK_FILE, now).value
        /\ (SOURCE = "api" /\ LAST_DATE_OVERRIDE = None
              /\ Parses(LAST_SUBMISSION_FILE))
            => \A q \in DOMAIN papers :
                   q \notin Range(sent) => LAST_SUBMISSION_FILE.t <= PublishedAt(q)

(* C8: under --nosave a run writes neither state file: both have the       *)
(* content, or the absence, they had when the run started.                 *)
C8_NoWrite ==
    NO_SAVE => << LAST_SUBMISSION_FILE, LAST_RSS_CHECK_FILE >> = startFiles

(* C9: when the state file of the chosen source is absent or does not      *)
(* parse, the read returns the default (now minus one day for the query    *)
(* watermark, "not checked today" for the feed) and the run goes on to the *)
(* fetch: the step that reads the state ends at the fetch, never in an     *)
(* error state and never skipping the fetch.                               *)
C9_ReadDefaults ==
    [][ ( /\ pc = "ready" /\ reads' # reads
          /\ LAST_DATE_OVERRIDE = None
          /\ ~Parses(IF SOURCE = "api" THEN LAST_SUBMISSION_FILE
                     ELSE LAST_RSS_CHECK_FILE) )
        => ( /\ pc' = "fetch"
             /\ reads' = 1
             /\ SOURCE = "api" => last_submission_date' = now - DayLen ) ]_vars

\* a query run read a file that does not parse and stands at the fetch
\* with the default watermark
C9_Witness ==
    /\ pc = "fetch" /\ SOURCE = "api" /\ reads = 1
    /\ SourceFileAtStart = Garbage
    /\ last_submission_date = now - DayLen

(* C10: has_checked_rss_today returns true iff the force flag is unset,    *)
(* the stored value is readable and its calendar day is the current day in *)
(* Eastern time; with the force flag set it returns false whatever is      *)
(* stored.                                                                 *)
C10_FeedGate ==
    smResult.op = "has_checked_rss_today" =>
        ( smResult.ok <=>
            /\ ~smResult.force
            /\ smResult.file.kind = "iso"
            /\ smResult.file.t \div DayLen = (smResult.at + EasternOff) \div DayLen )

\* the call returned true at an instant whose Eastern day is not its UTC day
C10_Witness ==
    /\ smResult.op = "has_checked_rss_today"
    /\ smResult.ok
    /\ smResult.at \div DayLen # (smResult.at + EasternOff) \div DayLen

\* what the fetching function of the run's source returns when upstream answers
FetchResult ==
    IF SOURCE = "api"
    THEN get_latest_papers_from_api(upstream, last_submission_date, MaxResults)
    ELSE get_latest_papers_from_rss(upstream, MaxResults)
\* the run called upstream and got nothing although upstream holds papers
\* for it: the call failed
FetchFailed == fetches = 1 /\ papers = << >> /\ FetchResult # << >>

(* C11: in a feed run where the feed was already checked today and the     *)
(* force flag is unset, the result is empty, no fetch is made, nothing is  *)
(* sent and the feed state file is not written.                            *)
C11_SkipNoWrite ==
    ( /\ SOURCE = "rss" /\ reads = 1 /\ ~FORCE_RSS_CHECK
      /\ pc \in { "loop", "done" }
      /\ already_checked_rss_today(startFiles[2], now).value )
    => ( /\ papers = << >>
         /\ fetches = 0
         /\ sent = << >>
         /\ writes = << >> )

(* C12: a failure of the upstream fetch never crashes the run: for both    *)
(* sources the step that calls upstream ends in the delivery loop, with    *)
(* what upstream holds for the run or with the empty sequence.             *)
C12_FetchNeverCrashes ==
    [][ (pc = "fetch" /\ fetches' = fetches + 1)
        => (pc' = "loop" /\ papers' \in { << >>, FetchResult }) ]_vars

(* C13: a run whose upstream fetch failed leaves the persisted state of    *)
(* its source as it was: it makes no end-of-run write, so a failed feed    *)
(* fetch does not mark the feed as checked today.                          *)
C13_FailedFetchNoWrite ==
    FetchFailed => "end" \notin Range(writes)

(* C14: a failure of the channel send for one paper is not fatal: the      *)
(* iteration of the delivery loop that handles a paper always leaves the   *)
(* run in the loop, from where the later papers are attempted and the      *)
(* end-of-run step is reached.                                             *)
C14_SendFailureNotFatal ==
    [][ (pc = "loop" /\ idx <= Len(papers)
           /\ (idx' # idx \/ formatted' # formatted))
        => (pc' = "loop" /\ idx' = idx + 1) ]_vars

(* C15: a query run that reads a stored watermark (no override) fetches no *)
(* paper published before it, so a paper the watermark was advanced past   *)
(* is not fetched or sent again; and what is fetched is determined by the  *)
(* watermark and the upstream data.                                        *)
C15_ExcludedAfterAdvance ==
    ( /\ SOURCE = "api" /\ LAST_DATE_OVERRIDE = None
      /\ pc \in { "loop", "done" }
      /\ Parses(startFiles[1]) )
    => ( /\ \A q \in DOMAIN papers : PublishedAt(q) >= startFiles[1].t
         /\ \A q \in Range(sent) : PublishedAt(q) >= startFiles[1].t
         /\ papers \in { << >>,
                get_latest_papers_from_api(upstream, startFiles[1].t, MaxResults) }
         /\ \A k \in Range(upstream) :
                Catalog[k].published < startFiles[1].t => k \notin Range(papers) )

\* a run reads a watermark that an earlier run saved as published + 1 of a
\* paper upstream still holds, and its fetch does not return that paper
C15_Witness ==
    /\ SOURCE = "api" /\ LAST_DATE_OVERRIDE = None
    /\ pc = "loop" /\ fetches = 1
    /\ Parses(startFiles[1])
    /\ startFiles[1].t > now - DayLen
    /\ \E k \in Range(upstream) :
          /\ startFiles[1].t = Catalog[k].published + 1
          /\ k \notin Range(papers)

(* C16: the author match is true iff some watch-list name equals some      *)
(* paper author, compared case-insensitively as whole strings:             *)
(* ["alice smith"] matches, ["Smith"] does not, an author of which a       *)
(* watch-list name is only a substring does not, and an empty author list  *)
(* does not.                                                               *)
C16_ExactMatch ==
    smResult.op = "_is_author_match" =>
        LET a == smResult.authors
            equal == \E i \in DOMAIN TARGET_AUTHORS : \E j \in DOMAIN a :
                         Lower(TARGET_AUTHORS[i]) = Lower(a[j])
        IN  /\ smResult.ok <=> equal
            /\ smResult.rss <=> equal
            /\ a = << >> => ~smResult.ok /\ ~smResult.rss
            /\ a = << "alice smith" >> => smResult.ok /\ smResult.rss
            /\ a = << "Smith" >> => ~smResult.ok /\ ~smResult.rss
            /\ a = << "Bob Joneson" >> => ~smResult.ok /\ ~smResult.rss

\* the matcher was given authors of whom one contains a watch-list name as
\* a substring and none equals one, and answered false
C16_Witness ==
    /\ smResult.op = "_is_author_match"
    /\ \E i \in DOMAIN TARGET_AUTHORS : \E j \in DOMAIN smResult.authors :
          /\ IsSubstring(Lower(TARGET_AUTHORS[i]), Lower(smResult.authors[j]))
          /\ Lower(TARGET_AUTHORS[i]) # Lower(smResult.authors[j])
    /\ ~smResult.ok /\ ~smResult.rss

(* C17: every message format_paper_message returns, and every message the *)
(* delivery loop of check_arxiv passes on to the channel send, has at most *)
(* 2000 characters, the 'was published' update notice included.            *)
C17_WithinLimit ==
    /\ (smResult.op = "format_paper_message" /\ smResult.message.form # "none")
          => smResult.message.len <= MAX_DISCORD_MSG_LEN
    /\ (smResult.op = "check_arxiv" /\ smResult.message.ok)
          => smResult.message.len <= MAX_MSG

(* C18: the formatter returns the full-author rendering when it fits,     *)
(* otherwise the "et al." rendering when that fits, otherwise the failed   *)
(* signal; it never raises, also for an empty author list; and the        *)
(* "et al." rendering is returned only when the full one is over the      *)
(* limit.                                                                  *)
C18_Ladder ==
    smResult.op \in { "format_paper_message", "check_arxiv" } =>
        LET m == smResult.message
            a == smResult.paper.authors
            first == IF a = << >> THEN UnknownAuthorLen ELSE NameLen(a[1])
        IN  /\ m.form # "raise"
            /\ m.form \in { "update", "full", "etal", "none" }
            /\ m.form = "full" => m.len <= MAX_MSG
            /\ (m.form = "etal" /\ m.len <= MAX_MSG)
                  => m.len - first - EtAlLen + JoinLen(a) > MAX_MSG

(* C19: a configuration failure (invalid source value, watermark override  *)
(* with the feed source, force-feed-check with the query source,           *)
(* unparseable override) aborts at startup; an invalid source value is not *)
(* replaced by a default source.                                           *)
C19_ConfigAborts ==
    smResult.op \in { "load_settings", "argv" } =>
        LET source == IF smResult.source = "" THEN "rss" ELSE smResult.source
            failure == \/ source \notin { "api", "rss" }
                       \/ smResult.lastdate = "bad"
                       \/ source = "rss" /\ smResult.lastdate = "iso"
                       \/ source = "api" /\ smResult.forcerss
            aborted == IF smResult.op = "argv"
                       THEN smResult.result.pc = "config_error"
                       ELSE smResult.result.outcome \in { "exit", "raise" }
        IN  failure => aborted

(* C20: the ordered match list is the watch-list names that equal some     *)
(* paper author case-insensitively, in watch-list order, except that a     *)
(* matched name equal to the first author (as a whole string,              *)
(* case-insensitively) comes first; with no match the result is the        *)
(* placeholder.                                                            *)
C20_OrderedMatchList ==
    smResult.op = "build_target_authors_string" =>
        LET a == smResult.authors
            Matched(name) == \E j \in DOMAIN a : Lower(name) = Lower(a[j])
            matched == SelectSeq(TARGET_AUTHORS, Matched)
            firsts == IF a = << >> THEN {}
                      ELSE { i \in DOMAIN matched : Lower(matched[i]) = Lower(a[1]) }
            expected ==
                IF firsts = {} THEN matched
                ELSE LET i == CHOOSE h \in firsts : \A g \in firsts : h <= g
                     IN  << matched[i] >> \o SubSeq(matched, 1, i - 1)
                           \o SubSeq(matched, i + 1, Len(matched))
        IN  /\ smResult.formatter = expected
            /\ smResult.bot = expected

\* a call of one of the two feed functions
FeedCall == smResult.op \in { "_fetch_from_rss", "get_latest_papers_from_rss" }

\* the entry normalizes, and one of its authors equals a watch-list name
GoodEntry(e) ==
    /\ e.defect = "none"
    /\ \E i \in DOMAIN TARGET_AUTHORS : \E j \in DOMAIN e.authors :
          Lower(TARGET_AUTHORS[i]) = Lower(e.authors[j])

\* the positions, among the first max_results, of the entries that
\* normalize and match
GoodPositions(entries, max_results) ==
    { i \in DOMAIN entries : i <= max_results /\ GoodEntry(entries[i]) }

\* the sequence is strictly increasing
Increasing(s) == \A i, j \in DOMAIN s : i < j => s[i] < s[j]

(* C21: when the feed request did not fail, an entry that does not         *)
(* normalize (no id, no usable author field, no date that parses) is the   *)
(* only one dropped: the fetch does not raise, and it returns exactly the  *)
(* entries, among those it looks at, that normalize and match.             *)
C21_OnlyBadEntryDropped ==
    (FeedCall /\ (smResult.status = None \/ smResult.status < HTTP_ERROR)) =>
        /\ ~smResult.result.raised
        /\ Range(smResult.result.papers)
              = GoodPositions(smResult.entries, smResult.max_results)

(* C23: every paper a feed function returns has an author equal,           *)
(* case-insensitively, to a watch-list name, so an entry whose author list *)
(* parsed as empty is never returned; the query function returns every     *)
(* result of the API, matching or not.                                     *)
C23_FeedFiltered ==
    /\ FeedCall =>
          \A q \in DOMAIN smResult.result.papers :
              LET e == smResult.entries[smResult.result.papers[q]]
              IN  /\ e.defect # "no_authors"
                  /\ \E i \in DOMAIN TARGET_AUTHORS : \E j \in DOMAIN e.authors :
                        Lower(TARGET_AUTHORS[i]) = Lower(e.authors[j])
    /\ (smResult.op = "_fetch_from_api" /\ smResult.up) =>
          smResult.result.papers = [i \in DOMAIN smResult.entries |-> i]

\* the feed held an entry without a usable author field and an entry that
\* matches, and the fetch returned the second and not the first
C23_Witness ==
    /\ smResult.op = "_fetch_from_rss"
    /\ smResult.result.papers # << >>
    /\ \E j \in DOMAIN smResult.entries :
          /\ j <= smResult.max_results
          /\ smResult.entries[j].defect = "no_authors"
          /\ j \notin Range(smResult.result.papers)

(* C24: ArxivFetcher._fetch_from_rss returns nothing when the final status *)
(* of the request is 400 or more, whatever the entries; with a status      *)
(* below 400, or none, it returns the entries that normalize and match.    *)
C24_StatusGate ==
    smResult.op = "_fetch_from_rss" =>
        IF smResult.status # None /\ smResult.status >= 400
        THEN smResult.result.papers = << >>
        ELSE /\ Range(smResult.result.papers)
                   = GoodPositions(smResult.entries, smResult.max_results)
             /\ Increasing(smResult.result.papers)

\* the status was exactly 400, the feed held an entry that normalizes and
\* matches, and nothing was returned
C24_Witness ==
    /\ smResult.op = "_fetch_from_rss"
    /\ smResult.status = 400
    /\ GoodPositions(smResult.entries, smResult.max_results) # { }
    /\ smResult.result.papers = << >>

(* C29: a feed function returns at most max_results papers, all of them    *)
(* among the first max_results entries of the feed: the cut is made before *)
(* the author filter.                                                      *)
C29_CutBeforeFilter ==
    FeedCall =>
        /\ Len(smResult.result.papers) <= smResult.max_results
        /\ \A q \in DOMAIN smResult.result.papers :
              smResult.result.papers[q] <= smResult.max_results

\* the request did not fail, an entry after the first max_results
\* normalizes and matches, fewer than max_results of the earlier ones were
\* returned, and it was not returned
C29_Witness ==
    /\ FeedCall
    /\ smResult.status = None \/ smResult.status < HTTP_ERROR
    /\ ~smResult.result.raised
    /\ Len(smResult.result.papers) < smResult.max_results
    /\ \E j \in DOMAIN smResult.entries :
          /\ j > smResult.max_results
          /\ GoodEntry(smResult.entries[j])
          /\ j \notin Range(smResult.result.papers)

\* the title and the fixed text of the message alone pass the limit, so
\* no form of the message fits
TooLong(k) == Catalog[k].titleLen + StdTemplateLen > MAX_MSG

(* C22: a paper whose message is over the limit even with 'et al.' is not  *)
(* sent, its id is in the in-run dedupe set, so that a later paper with    *)
(* the same id is neither formatted nor sent, and the loop has gone on to  *)
(* the next paper.                                                         *)
C22_FailedFormatSkipped ==
    \A q \in Range(formatted) :
        TooLong(papers[q]) =>
            /\ q \notin Range(sent)
            /\ IdAt(q) \in posted_papers
            /\ idx > q
            /\ \A q2 \in DOMAIN papers :
                  (q2 # q /\ IdAt(q2) = IdAt(q)) =>
                      q2 \notin Range(formatted) /\ q2 \notin Range(sent)

\* a paper whose message cannot fit was passed over, and a later paper of
\* the same run was sent
C22_Witness ==
    \E q \in Range(formatted) :
        /\ TooLong(papers[q])
        /\ q \notin Range(sent)
        /\ \E q2 \in Range(sent) : q2 > q

(* C25: a feed run leaves the query watermark file as it was and never     *)
(* loads the query watermark; a query run leaves the feed's day marker as  *)
(* it was and is not gated by it: it reaches the delivery loop only        *)
(* through a fetch.                                                        *)
C25_WatermarksIndependent ==
    /\ SOURCE = "rss" =>
          /\ LAST_SUBMISSION_FILE = startFiles[1]
          /\ last_submission_date = None
    /\ SOURCE = "api" =>
          /\ LAST_RSS_CHECK_FILE = startFiles[2]
          /\ (pc \in { "loop", "done" } /\ Started) => fetches = 1

\* a query run went to its end and saved its watermark while the feed's
\* day marker said that the feed was checked today; the marker is as before
C25_Witness ==
    /\ SOURCE = "api"
    /\ pc = "done"
    /\ "end" \in Range(writes)
    /\ fetches = 1
    /\ startFiles[2] = IsoFormat(NowEastern(now))
    /\ LAST_RSS_CHECK_FILE = startFiles[2]
    /\ LAST_SUBMISSION_FILE # startFiles[1]

(* C26: a feed run that goes to its end without the no-save flag leaves    *)
(* the day marker at the current reference-timezone day, whatever it       *)
(* fetched or sent; and a feed run without force that finds the marker on  *)
(* the current reference-timezone day makes no fetch and sends nothing.    *)
C26_SameDaySkip ==
    /\ [][(pc = "loop" /\ pc' = "done" /\ SOURCE = "rss" /\ ~NO_SAVE) =>
             /\ Parses(LAST_RSS_CHECK_FILE')
             /\ DateOf(LAST_RSS_CHECK_FILE'.t) = DateOf(NowEastern(now))]_vars
    /\ [](( /\ SOURCE = "rss" /\ ~FORCE_RSS_CHECK /\ reads = 1
            /\ Parses(startFiles[2])
            /\ DateOf(startFiles[2].t) = DateOf(NowEastern(now)) ) =>
              /\ fetches = 0
              /\ sent = << >>
              /\ papers = << >>)

\* after time has passed, a feed run without force went to its end
\* without a fetch, although the feed holds a matching entry, because the
\* marker carries the current time of the reference timezone
C26_Witness ==
    /\ SOURCE = "rss" /\ ~FORCE_RSS_CHECK
    /\ pc = "done"
    /\ reads = 1
    /\ now > StartTime
    /\ startFiles[2] = IsoFormat(NowEastern(now))
    /\ get_latest_papers_from_rss(upstream, MaxResults) # << >>
    /\ fetches = 0
    /\ sent = << >>

(* C27: the step that ends a query run leaves the watermark file unchanged *)
(* when no message was sent in the run (no-send flag, or every fetched     *)
(* paper a duplicate or too long).                                         *)
C27_SaveOnlyIfSent ==
    [][(pc = "loop" /\ pc' = "done" /\ SOURCE = "api" /\ (NO_SEND \/ sent = << >>)) =>
          /\ LAST_SUBMISSION_FILE' = LAST_SUBMISSION_FILE
          /\ writes' = writes]_vars

\* a query run with neither flag fetched papers, formatted them, sent none
\* and ended without a write
C27_Witness ==
    /\ SOURCE = "api" /\ ~NO_SAVE /\ ~NO_SEND
    /\ pc = "done"
    /\ papers # << >>
    /\ formatted # << >>
    /\ sent = << >>
    /\ "end" \notin Range(writes)

(* C28: in a run that nothing stops from outside, once the client is ready *)
(* the check is made and the client is then closed.                        *)
C28_RunCloses == (pc = "ready") ~> (pc = "done")

(* C30: when the channel is not resolved the check returns at once: the    *)
(* step from ready to the end of the run makes no fetch, sends nothing and *)
(* leaves both state files, and the record of reads and writes, as they    *)
(* were.                                                                   *)
C30_NoChannelNoEffect ==
    [][(pc = "ready" /\ pc' = "done") =>
          UNCHANGED << fileVars, last_submission_date, loopVars, reads, fetches,
                       writes >>]_vars

\* a run ended at the channel test: nothing was read or fetched, and the
\* state file of the run, absent at the start, is still absent, although
\* the upstream has entries
C30_Witness ==
    /\ pc = "done"
    /\ reads = 0 /\ fetches = 0 /\ writes = << >>
    /\ LAST_DATE_OVERRIDE = None
    /\ upstream # << >>
    /\ ~Exists(SourceFileAtStart)
    /\ << LAST_SUBMISSION_FILE, LAST_RSS_CHECK_FILE >> = startFiles

=============================================================================
